---- MODULE Spec2Model ----
(***************************************************************************)
(* A model of YodaRT's @yoda/audio AudioManager                            *)
(* (src/packages/@yoda/audio/index.js) over its two collaborators, the     *)
(* persistent property store and the native audio backend, and of the      *)
(* path resolver `get` of @yoda/util that src/unnamed/part_000 tests.      *)
(*                                                                         *)
(* JavaScript values are tagged records (see JS below).  A number is       *)
(* n + f/10 with 0 <= f < 10, so that Math.floor, the clamp comparisons    *)
(* and String() act on non-integers as they do in the code; NaN is a       *)
(* number of its own kind.  Strings held by the property store are         *)
(* sequences of one-character strings, so that String(number) and          *)
(* parseInt(string) are computed digit by digit.                            *)
(***************************************************************************)
EXTENDS Integers, Sequences, FiniteSets, TLC

VARIABLES
  idBase,          \* the value of native.STREAM_AUDIO (the ids are consecutive)
  loaded,          \* the module has been required (init has run) in this process
  DEFAULT_VOLUME,  \* AudioBase.DEFAULT_VOLUME
  store,           \* the property store: key -> stored string
  streamVolume,    \* native backend: stream id -> last volume forwarded
  muted,           \* native backend: global mute
  curve,           \* native backend: volume index -> accepted curve value
  written,         \* property keys written by this process since it started
  op,              \* the operation that ran last
  args,            \* its arguments
  result,          \* its outcome: a returned value or a thrown error
  calls,           \* the collaborator calls it made, in order
  nops,            \* operations run so far
  container,       \* get: first argument
  path,            \* get: second argument
  defaults,        \* get: third argument
  ret              \* get: outcome

audioVars == <<idBase, loaded, DEFAULT_VOLUME, store, streamVolume, muted, curve,
               written, op, args, result, calls, nops>>
getVars == <<container, path, defaults, ret>>
vars == <<idBase, loaded, DEFAULT_VOLUME, store, streamVolume, muted, curve,
          written, op, args, result, calls, nops, container, path, defaults, ret>>

(***************************************************************************)
(* JavaScript values                                                       *)
(***************************************************************************)
JS(k, n, f, s) == [k |-> k, n |-> n, f |-> f, s |-> s]
Num(n, f) == JS("num", n, f, "")
IntNum(n) == Num(n, 0)
NaN == JS("nan", 0, 0, "")
Str(s) == JS("str", 0, 0, s)
Undefined == JS("undef", 0, 0, "")
Null == JS("null", 0, 0, "")
Bool(b) == JS("bool", IF b THEN 1 ELSE 0, 0, "")
StreamObject(id, name) == JS("stream", id, 0, name)

typeof(v) ==
  CASE v.k \in {"num", "nan"} -> "number"
    [] v.k = "str" -> "string"
    [] v.k = "undef" -> "undefined"
    [] v.k = "bool" -> "boolean"
    [] OTHER -> "object"

ToBoolean(v) ==
  CASE v.k = "num" -> ~(v.n = 0 /\ v.f = 0)
    [] v.k = "str" -> v.s # ""
    [] v.k = "bool" -> v.n = 1
    [] v.k = "stream" -> TRUE
    [] OTHER -> FALSE

\* v > c and v < c for an integer c; every comparison with NaN is false
GreaterThan(v, c) == v.k = "num" /\ (v.n > c \/ (v.n = c /\ v.f > 0))
LessThan(v, c) == v.k = "num" /\ v.n < c

Math_floor(v) == IF v.k = "num" THEN IntNum(v.n) ELSE v

DigitChars == <<"0", "1", "2", "3", "4", "5", "6", "7", "8", "9">>
IsDigit(c) == \E i \in 1..10 : DigitChars[i] = c
DigitVal(c) == (CHOOSE i \in 1..10 : DigitChars[i] = c) - 1

RECURSIVE DigitsOf(_)
DigitsOf(n) ==
  IF n < 10 THEN <<DigitChars[n + 1]>>
  ELSE DigitsOf(n \div 10) \o <<DigitChars[(n % 10) + 1]>>

\* String(v) for a number
NumberToString(v) ==
  IF v.k = "nan" THEN <<"N", "a", "N">>
  ELSE IF v.f = 0
    THEN IF v.n < 0 THEN <<"-">> \o DigitsOf(-v.n) ELSE DigitsOf(v.n)
    ELSE IF v.n < 0
      THEN <<"-">> \o DigitsOf(-v.n - 1) \o <<".">> \o DigitsOf(10 - v.f)
      ELSE DigitsOf(v.n) \o <<".">> \o DigitsOf(v.f)

RECURSIVE SkipSpaces(_, _)
SkipSpaces(s, i) ==
  IF i <= Len(s) /\ s[i] = " " THEN SkipSpaces(s, i + 1) ELSE i

RECURSIVE ParseDigits(_, _, _)
ParseDigits(s, i, acc) ==
  IF i <= Len(s) /\ IsDigit(s[i])
    THEN ParseDigits(s, i + 1, acc * 10 + DigitVal(s[i]))
    ELSE acc

\* parseInt(s), radix 10: leading blanks, an optional sign, the longest run of digits
parseInt(s) ==
  LET i == SkipSpaces(s, 1)
      signed == i <= Len(s) /\ s[i] \in {"-", "+"}
      j == IF signed THEN i + 1 ELSE i
  IN IF j <= Len(s) /\ IsDigit(s[j])
       THEN IntNum((IF signed /\ s[i] = "-" THEN -1 ELSE 1) * ParseDigits(s, j, 0))
       ELSE NaN

isNaN(v) == v.k = "nan"

(***************************************************************************)
(* The stream catalog and the collaborators                                *)
(***************************************************************************)
\* the streams in the order init defines them.  The native ids are constants of
\* audio.node: seven distinct numbers, taken consecutive from idBase, which is 0
\* or 1 so that a falsy stream id is covered.
StreamNames == <<"audio", "tts", "ring", "voiceCall", "playback", "alarm", "system">>
NStreams == Len(StreamNames)
IndexOf(name) == CHOOSE i \in 1..NStreams : StreamNames[i] = name
native_STREAM(name) == idBase + IndexOf(name) - 1
StreamIds == {idBase + i - 1 : i \in 1..NStreams}
NameOfId(id) == StreamNames[id - idBase + 1]

KeyOf(name) == "audio.volume." \o name
DefaultKey == "audio.volume.default"
StreamKeys == {KeyOf(StreamNames[i]) : i \in 1..NStreams}
Keys == StreamKeys \cup {DefaultKey}

Call(fn, a, b) == [fn |-> fn, a |-> a, b |-> b]
Env(st, sv, wr, cs) == [store |-> st, streamVolume |-> sv, written |-> wr, calls |-> cs]
Return(env, v) == [env |-> env, res |-> [k |-> "return", err |-> "", v |-> v]]
Throw(env, err) == [env |-> env, res |-> [k |-> "throw", err |-> err, v |-> Undefined]]

\* property.get(key, 'persist'): the stored string, empty when nothing is stored
\* (parseInt of undefined and of '' are both NaN).  The store keeps strings.
property_get(env, key) ==
  [env |-> [env EXCEPT !.calls = Append(@, Call("property.get", key, Undefined))],
   str |-> IF key.k = "str" /\ key.s \in Keys THEN env.store[key.s] ELSE <<>>]

\* property.set(key, value, 'persist'): stores String(value).  A call whose key
\* is undefined (stream.key of a non-stream) is logged and touches no stream's key.
property_set(env, key, val) ==
  LET logged == [env EXCEPT !.calls = Append(@, Call("property.set", key, val))]
  IN IF key.k = "str" /\ key.s \in Keys
       THEN [logged EXCEPT !.store[key.s] = NumberToString(val),
                           !.written = @ \cup {key.s}]
       ELSE logged

\* native.setStreamVolume(id, vol); neither collaborator throws, and a call
\* whose id is undefined is logged and touches no stream's volume
native_setStreamVolume(env, id, vol) ==
  LET logged == [env EXCEPT !.calls = Append(@, Call("native.setStreamVolume", id, vol))]
  IN IF id.k = "num" /\ id.f = 0 /\ id.n \in StreamIds
       THEN [logged EXCEPT !.streamVolume[id.n] = vol]
       ELSE logged

(***************************************************************************)
(* index.js                                                                *)
(***************************************************************************)
_getNumber(env, key, dflt) ==
  LET got == property_get(env, Str(key))
      num == parseInt(got.str)
  IN [env |-> got.env, v |-> IF isNaN(num) THEN dflt ELSE num]

\* stream.key, stream.id, stream.readonly; a number primitive has none of them
Key(stream) == IF stream.k = "stream" THEN Str(KeyOf(stream.s)) ELSE Undefined
Id(stream) == IF stream.k = "stream" THEN IntNum(stream.n) ELSE Undefined
\* the readonly option lost in defineStream
Readonly_Dropped(stream) == Undefined
Readonly(stream) ==
  IF stream.k = "stream" /\ stream.s = "system" THEN Bool(TRUE) ELSE Undefined

\* _storeVolume forwarding the volume it was given, not the floored one
_storeVolume_ForwardsUnfloored(env, stream, vol) ==
  native_setStreamVolume(property_set(env, Key(stream), Math_floor(vol)), Id(stream), vol)

_storeVolume(env, stream, vol) ==
  LET v == Math_floor(vol)
      e1 == property_set(env, Key(stream), v)
  IN native_setStreamVolume(e1, Id(stream), v)

_getVolume(env, stream) ==
  LET got == property_get(env, Key(stream))
      vol == parseInt(got.str)
  IN Return(got.env, IF isNaN(vol) THEN Bool(FALSE) ELSE vol)

\* defineStream writing the default over a persisted volume
defineStream_AlwaysDefaults(env, dv, id, name) ==
  _storeVolume(env, StreamObject(id, name), dv)

defineStream(env, dv, id, name) ==
  LET stream == StreamObject(id, name)
      got == _getVolume(env, stream)
  IN IF got.res.v = Bool(FALSE) THEN _storeVolume(got.env, stream, dv) ELSE got.env

\* AudioBase[key] once init has run: the stream entries under their native ids
\* and DEFAULT_VOLUME (the properties inherited from Object.prototype are left out)
AudioBase(key) ==
  CASE key.k = "num" /\ key.f = 0 /\ key.n \in StreamIds ->
         StreamObject(key.n, NameOfId(key.n))
    [] key.k = "str" /\ key.s = "DEFAULT_VOLUME" -> DEFAULT_VOLUME
    [] OTHER -> Undefined


\* the body of init: AudioBase.DEFAULT_VOLUME is read, then the streams are defined
RECURSIVE defineStreams(_, _, _)
defineStreams(env, dv, i) ==
  IF i > NStreams THEN env
  ELSE defineStreams(defineStream(env, dv, idBase + i - 1, StreamNames[i]), dv, i + 1)

HARDCODED_DEFAULT == 60

moduleLoad(env) ==
  LET dv == _getNumber(env, DefaultKey, IntNum(HARDCODED_DEFAULT))
  IN [env |-> defineStreams(dv.env, dv.v, 1), dv |-> dv.v]

InvalidStreamType == "TypeError: invalid stream type"
VolNotNumber == "TypeError: vol must be a number"
ReadonlyError(stream) == "Error: stream type \"" \o stream.s \o "\" is readonly"
NoPropertyOfUndefined == "TypeError: Cannot read property 'readonly' of undefined"

\* the broadcast without its last call
BroadcastStreams_WithoutRing == <<"audio", "playback", "tts">>

\* the streams a call without a stream argument is applied to, in order
BroadcastStreams == <<"audio", "playback", "tts", "ring">>

\* the clamp without its lower bound
clamp_NoLowerBound(vol) ==
  IF GreaterThan(vol, 100) THEN IntNum(100) ELSE vol

\* lines 157-161
clamp(vol) ==
  IF GreaterThan(vol, 100) THEN IntNum(100)
  ELSE IF LessThan(vol, 0) THEN IntNum(0)
  ELSE vol

RECURSIVE setVolume(_, _)
RECURSIVE setVolumeAll(_, _, _)

setVolume(env, argv) ==
  LET type == IF Len(argv) = 1 THEN Null ELSE argv[1]
      given == IF Len(argv) = 1 THEN argv[1] ELSE argv[2]
      vol == clamp(given)
  IN IF ToBoolean(type) /\ ~ToBoolean(AudioBase(type))
       THEN Throw(env, InvalidStreamType)
     ELSE IF typeof(given) # "number"
       THEN Throw(env, VolNotNumber)
     ELSE IF type = Null
       THEN setVolumeAll(env, vol, 1)
     ELSE LET stream == AudioBase(type)
          IN IF stream.k = "undef"
               THEN Throw(env, NoPropertyOfUndefined)
             ELSE IF ToBoolean(Readonly(stream))
               THEN Throw(env, ReadonlyError(stream))
             ELSE Return(_storeVolume(env, stream, vol), Undefined)

\* lines 164-168: the four calls in turn; an exception ends the sequence
setVolumeAll(env, vol, i) ==
  IF i > Len(BroadcastStreams) THEN Return(env, Undefined)
  ELSE LET r == setVolume(env, <<IntNum(native_STREAM(BroadcastStreams[i])), vol>>)
       IN IF r.res.k = "throw" THEN r ELSE setVolumeAll(r.env, vol, i + 1)

getVolume(env, argv) ==
  LET stream == IF Len(argv) = 0 THEN Undefined ELSE argv[1]
  IN IF stream # Undefined
       THEN IF ~ToBoolean(AudioBase(stream))
              THEN Throw(env, InvalidStreamType)
              ELSE _getVolume(env, AudioBase(stream))
       ELSE _getVolume(env, AudioBase(IntNum(native_STREAM("tts"))))

\* native.getStreamPlayingStatus(id) answers `status`
_getPlayingStatus(env, stream, status) ==
  Return([env EXCEPT !.calls =
            Append(@, Call("native.getStreamPlayingStatus", Id(stream), Undefined))],
         Bool(status))

getPlayingStatus(env, argv, status) ==
  LET stream == IF Len(argv) = 0 THEN Undefined ELSE argv[1]
  IN IF stream # Undefined
       THEN IF ~ToBoolean(AudioBase(stream))
              THEN Throw(env, InvalidStreamType)
              ELSE _getPlayingStatus(env, AudioBase(stream), status)
       ELSE _getPlayingStatus(env, AudioBase(IntNum(native_STREAM("tts"))), status)

getStreamName(env, type) ==
  LET entry == AudioBase(type)
  IN Return(env, IF ~ToBoolean(entry) THEN entry
                 ELSE IF entry.k = "stream" THEN Str(entry.s) ELSE Undefined)

max == 100

\* AudioManager.LINEAR_RAMP(len), as the array [0, 1, ..., len]
LINEAR_RAMP(len) == [isArray |-> TRUE, items |-> [i \in 1..(len + 1) |-> IntNum(i - 1)]]

\* shape[i] of a JavaScript array (indices from 0)
At(shape, i) == IF i + 1 \in DOMAIN shape.items THEN shape.items[i + 1] ELSE Undefined

\* the turn keeping the point the backend rejected
shaperStep_KeepsRejected(st, shape, rejectAt, i) ==
  [curve |-> [st.curve EXCEPT ![i] = At(shape, i)],
   calls |-> Append(st.calls, Call("native.setCurveForVolume", IntNum(i), At(shape, i))),
   res |-> IF i = rejectAt
             THEN Throw(<<>>, "RangeError: out of range when set volume shape.").res
             ELSE st.res]

\* one turn of the loop of lines 231-235; native.setCurveForVolume answers false
\* at index rejectAt
shaperStep(st, shape, rejectAt, i) ==
  LET logged == Append(st.calls, Call("native.setCurveForVolume", IntNum(i), At(shape, i)))
  IN IF i = rejectAt
       THEN [curve |-> st.curve, calls |-> logged,
             res |-> Throw(<<>>, "RangeError: out of range when set volume shape.").res]
       ELSE [curve |-> [st.curve EXCEPT ![i] = At(shape, i)], calls |-> logged,
             res |-> st.res]

\* the turns lo..hi in increasing order, none after a throw (the range is halved
\* to keep the evaluation shallow)
RECURSIVE shaperLoop(_, _, _, _, _)
shaperLoop(st, shape, rejectAt, lo, hi) ==
  IF st.res.k = "throw" THEN st
  ELSE IF lo = hi THEN shaperStep(st, shape, rejectAt, lo)
  ELSE LET mid == (lo + hi) \div 2
       IN shaperLoop(shaperLoop(st, shape, rejectAt, lo, mid), shape, rejectAt, mid + 1, hi)

setVolumeShaper(cv, shape, rejectAt) ==
  IF ~shape.isArray
    THEN [curve |-> cv, calls |-> <<>>,
          res |-> Throw(<<>>, "Error: shaper function should return an array with 100 elements.").res]
    ELSE shaperLoop([curve |-> cv, calls |-> <<>>, res |-> Return(<<>>, Bool(TRUE)).res],
                    shape, rejectAt, 0, max)


(***************************************************************************)
(* @yoda/util get, as src/unnamed/part_000 exercises it.  A value is a     *)
(* node: a mapping or a sequence with its members (a sequence's under the  *)
(* keys "0", "1", ...), a string, a number, null or undefined.             *)
(***************************************************************************)
Node(kind, s, n, kids) == [kind |-> kind, s |-> s, n |-> n, kids |-> kids]
NoKids == [k \in {} |-> 0]
NullNode == Node("null", "", 0, NoKids)
UndefinedNode == Node("undefined", "", 0, NoKids)
StringNode(s) == Node("string", s, 0, NoKids)
NumberNode(n) == Node("number", "", n, NoKids)
Mapping(kids) == Node("mapping", "", 0, kids)
Sequence(kids) == Node("sequence", "", 0, kids)

\* String(path) for a numeric path, and a string path as it is
PathChars(p) == IF p.kind = "number" THEN DigitsOf(p.n) ELSE p.chars
NumericPath(n) == [kind |-> "number", n |-> n, chars |-> <<>>]
StringPath(chars) == [kind |-> "string", n |-> 0, chars |-> chars]

\* the characters of s as one string
RECURSIVE Joined(_)
Joined(s) == IF s = <<>> THEN "" ELSE Head(s) \o Joined(Tail(s))

\* path.split('.'): the segments between the dots
RECURSIVE Split(_, _, _)
Split(s, i, seg) ==
  IF i > Len(s) THEN <<Joined(seg)>>
  ELSE IF s[i] = "." THEN <<Joined(seg)>> \o Split(s, i + 1, <<>>)
  ELSE Split(s, i + 1, Append(seg, s[i]))

RECURSIVE Walk(_, _, _)
\* the walk taking a null for a missing member
Walk_NullAsMissing(node, segs, i) ==
  IF i > Len(segs) THEN node
  ELSE IF node.kind \notin {"mapping", "sequence"} THEN UndefinedNode
  ELSE IF segs[i] \notin DOMAIN node.kids THEN UndefinedNode
  ELSE Walk(node.kids[segs[i]], segs, i + 1)

\* the walk from `node` along segs[i..]: it stops at a null, at a scalar and at
\* a missing member
Walk(node, segs, i) ==
  IF i > Len(segs) THEN node
  ELSE IF node.kind = "null" THEN NullNode
  ELSE IF node.kind \notin {"mapping", "sequence"} THEN UndefinedNode
  ELSE IF segs[i] \notin DOMAIN node.kids THEN UndefinedNode
  ELSE Walk(node.kids[segs[i]], segs, i + 1)

get(object, p, dflt) ==
  IF object.kind \in {"null", "undefined"} THEN dflt
  ELSE LET found == Walk(object, Split(PathChars(p), 1, <<>>), 1)
       IN IF found.kind = "undefined" THEN dflt ELSE found

\* the cases of the suite `get`: params and expected
Case(object, p, dflt, expected) ==
  [object |-> object, path |-> p, dflt |-> dflt, expected |-> expected]
GetCases ==
  << Case(Mapping([foo |-> StringNode("bar")]),
          StringPath(<<"f", "o", "o">>), UndefinedNode, StringNode("bar")),
     Case(Mapping([nested |-> Mapping([foo |-> StringNode("bar")])]),
          StringPath(<<"n", "e", "s", "t", "e", "d", ".", "f", "o", "o">>),
          UndefinedNode, StringNode("bar")),
     Case(Mapping(NoKids),
          StringPath(<<"f", "o", "o">>), StringNode("bar"), StringNode("bar")),
     Case(Sequence("0" :> StringNode("foo") @@ "1" :> StringNode("bar")),
          StringPath(<<"1">>), UndefinedNode, StringNode("bar")),
     Case(Sequence("0" :> StringNode("foo") @@ "1" :> StringNode("bar")),
          NumericPath(1), UndefinedNode, StringNode("bar")),
     Case(Mapping([nested |-> Mapping([foo |-> Mapping([foo |-> StringNode("bar")])])]),
          StringPath(<<"n", "e", "s", "t", "e", "d", ".", "b", "a", "r", ".", "f", "o", "o">>),
          UndefinedNode, UndefinedNode),
     Case(Mapping([foo |-> NumberNode(1)]),
          StringPath(<<"f", "o", "o", ".", "b", "a", "r">>), UndefinedNode, UndefinedNode),
     Case(Mapping([foo |-> NullNode]),
          StringPath(<<"f", "o", "o", ".", "b", "a", "r">>), UndefinedNode, NullNode) >>

(***************************************************************************)
(* Inputs and bounds                                                       *)
(***************************************************************************)
MaxOps == 3

\* what the property store may hold for a stream before the process starts
NoValue == <<>>
StoredText == {NoValue, <<"o", "f", "f">>, <<"7", "x">>}
\* ... and for audio.volume.default
DefaultText == {NoValue, <<"m", "i", "d">>, <<"3", "0">>, <<"1", "5", "0">>,
                <<"-", "5">>, <<" ", "4", "2", "%">>}

EmptyStore == [k \in Keys |-> NoValue]
BootStores ==
  { EmptyStore,
    [EmptyStore EXCEPT ![DefaultKey] = <<"1", "5", "0">>, ![KeyOf("tts")] = <<"8", "0">>,
                       ![KeyOf("alarm")] = <<"7", "x">>] }

IdBases == {0, 1}

\* stream arguments: the catalog ids and identifiers outside the catalog
UnknownTypes == {IntNum(9999), IntNum(0), Null, Str("DEFAULT_VOLUME")}
TypeArgs == {IntNum(id) : id \in StreamIds} \cup UnknownTypes
VolArgs == {IntNum(150), IntNum(-10), Num(50, 5), NaN, Str("50")}

NotAnArray == [isArray |-> FALSE, items |-> <<>>]
\* a shaper that returns 100 elements, as the documentation of setVolumeShaper asks
Descending100 == [isArray |-> TRUE, items |-> [i \in 1..max |-> IntNum(max - i)]]
Shapes == {LINEAR_RAMP(max), Descending100, NotAnArray}
NeverRejects == max + 1
RejectPoints == {0, 1, 50, max, NeverRejects}

\* containers for get: scalars, and mappings and sequences nested two deep
MaxPathLen == 4
PathAlphabet == {"a", "b", "0", "."}
Leaves == {NullNode, NumberNode(1), StringNode("bar")}
Level1 ==
  {Mapping(kids) : kids \in UNION {[S -> Leaves \cup {UndefinedNode}] : S \in SUBSET {"a", "b"}}}
  \cup {Sequence(kids) : kids \in [{"0"} -> Leaves] \cup [{"0", "1"} -> Leaves]}
Level2 ==
  {Mapping(kids) : kids \in [{"a"} -> Level1]}
  \cup {Sequence(kids) : kids \in [{"0"} -> Level1]}
Containers == {NullNode, UndefinedNode, NumberNode(1), StringNode("bar")} \cup Level1 \cup Level2
PathArgs ==
  {StringPath(chars) : chars \in UNION {[1..n -> PathAlphabet] : n \in 0..MaxPathLen}}
  \cup {NumericPath(0), NumericPath(1)}
DefaultArgs == {UndefinedNode, StringNode("X")}

(***************************************************************************)
(* The state machine                                                       *)
(***************************************************************************)
NoResult == Return(<<>>, Undefined).res

\* the process has not started; the collaborators hold what earlier runs left
Unloaded ==
  /\ idBase \in IdBases
  /\ loaded = FALSE
  /\ DEFAULT_VOLUME = Undefined
  /\ streamVolume = [id \in StreamIds |-> Undefined]
  /\ muted = FALSE
  /\ curve = [i \in 0..max |-> Undefined]
  /\ written = {}
  /\ op = "none"
  /\ args = <<>>
  /\ result = NoResult
  /\ calls = <<>>
  /\ nops = 0

GetIdle ==
  /\ container = UndefinedNode
  /\ path = StringPath(<<>>)
  /\ defaults = UndefinedNode
  /\ ret = [done |-> FALSE, v |-> UndefinedNode]

Init == Unloaded /\ store \in BootStores /\ GetIdle

\* an operation of the loaded module ran with outcome r
Ran(name, argv, r) ==
  /\ op' = name
  /\ args' = argv
  /\ result' = r.res
  /\ calls' = r.env.calls
  /\ store' = r.env.store
  /\ streamVolume' = r.env.streamVolume
  /\ written' = r.env.written
  /\ nops' = nops + 1
  /\ UNCHANGED <<idBase, loaded, DEFAULT_VOLUME, getVars>>

Now == Env(store, streamVolume, written, <<>>)

\* the process starts and requires the module (lines 21-26 and 267-277)
init ==
  /\ nops < MaxOps
  /\ LET r == moduleLoad(Env(store, streamVolume, {}, <<>>))
     IN /\ loaded' = TRUE
        /\ DEFAULT_VOLUME' = r.dv
        /\ op' = "init"
        /\ args' = <<>>
        /\ result' = NoResult
        /\ calls' = r.env.calls
        /\ store' = r.env.store
        /\ streamVolume' = r.env.streamVolume
        /\ written' = r.env.written
        /\ nops' = nops + 1
  /\ UNCHANGED <<idBase, muted, curve, getVars>>

CallSetVolume(argv) ==
  /\ loaded /\ nops < MaxOps
  /\ Ran("setVolume", argv, setVolume(Now, argv))
  /\ UNCHANGED <<muted, curve>>

CallGetVolume(argv) ==
  /\ loaded /\ nops < MaxOps
  /\ Ran("getVolume", argv, getVolume(Now, argv))
  /\ UNCHANGED <<muted, curve>>

CallGetPlayingStatus(argv, status) ==
  /\ loaded /\ nops < MaxOps
  /\ Ran("getPlayingStatus", argv, getPlayingStatus(Now, argv, status))
  /\ UNCHANGED <<muted, curve>>

CallGetStreamName(type) ==
  /\ loaded /\ nops < MaxOps
  /\ Ran("getStreamName", <<type>>, getStreamName(Now, type))
  /\ UNCHANGED <<muted, curve>>

isMuted ==
  /\ loaded /\ nops < MaxOps
  /\ Ran("isMuted", <<>>,
         Return([Now EXCEPT !.calls = <<Call("native.isMuted", Undefined, Undefined)>>],
                Bool(muted)))
  /\ UNCHANGED <<muted, curve>>

setMute(val) ==
  /\ loaded /\ nops < MaxOps
  /\ Ran("setMute", <<val>>,
         Return([Now EXCEPT !.calls =
                   <<Call("native.setMute", Bool(ToBoolean(val)), Undefined)>>],
                Undefined))
  /\ muted' = ToBoolean(val)
  /\ UNCHANGED curve

CallSetVolumeShaper(shape, rejectAt) ==
  /\ loaded /\ nops < MaxOps
  /\ LET r == setVolumeShaper(curve, shape, rejectAt)
     IN /\ op' = "setVolumeShaper"
        /\ args' = <<shape, rejectAt>>
        /\ result' = r.res
        /\ calls' = r.calls
        /\ curve' = r.curve
  /\ nops' = nops + 1
  /\ UNCHANGED <<idBase, loaded, DEFAULT_VOLUME, store, streamVolume, muted, written,
                 getVars>>

\* _.get.apply(null, params) of line 139
CallGet ==
  /\ ~ret.done
  /\ ret' = [done |-> TRUE, v |-> get(container, path, defaults)]
  /\ UNCHANGED <<audioVars, container, path, defaults>>

Next ==
  \/ init
  \/ \E v \in VolArgs : CallSetVolume(<<v>>)
  \/ \E t \in TypeArgs, v \in VolArgs : CallSetVolume(<<t, v>>)
  \/ CallGetVolume(<<>>)
  \/ \E t \in TypeArgs : CallGetVolume(<<t>>)
  \/ \E b \in BOOLEAN : CallGetPlayingStatus(<<>>, b)
  \/ \E t \in TypeArgs, b \in BOOLEAN : CallGetPlayingStatus(<<t>>, b)
  \/ \E t \in TypeArgs : CallGetStreamName(t)
  \/ isMuted
  \/ \E val \in {Bool(TRUE), Undefined} : setMute(val)
  \/ \E shape \in Shapes, r \in RejectPoints : CallSetVolumeShaper(shape, r)

Spec == Init /\ [][Next]_vars

\* setVolume and getVolume: the catalog streams, and the two identifiers outside
\* the catalog that setVolume lets through
VolumeTypeArgs == {IntNum(id) : id \in StreamIds} \cup {Null, Str("DEFAULT_VOLUME")}
NextVolume ==
  \/ init
  \/ \E v \in VolArgs : CallSetVolume(<<v>>)
  \/ \E t \in VolumeTypeArgs, v \in VolArgs : CallSetVolume(<<t, v>>)
  \/ CallGetVolume(<<>>)
  \/ \E id \in StreamIds : CallGetVolume(<<IntNum(id)>>)

SpecVolume == Init /\ [][NextVolume]_vars

\* process starts over every content of the property store
InitAnyStore ==
  /\ Unloaded
  /\ \E d \in DefaultText, f \in [StreamKeys -> StoredText] :
       store = [k \in Keys |-> IF k = DefaultKey THEN d ELSE f[k]]
  /\ GetIdle
NextInit == init
SpecInit == InitAnyStore /\ [][NextInit]_vars

\* the volume curve
NextShaper ==
  \/ init
  \/ \E shape \in Shapes, r \in RejectPoints : CallSetVolumeShaper(shape, r)
SpecShaper == Init /\ [][NextShaper]_vars

\* get over the suite's cases and over generated containers and paths
InitGet ==
  /\ Unloaded
  /\ idBase = 1
  /\ store = EmptyStore
  /\ \/ \E i \in 1..Len(GetCases) :
          /\ container = GetCases[i].object
          /\ path = GetCases[i].path
          /\ defaults = GetCases[i].dflt
     \/ /\ container \in Containers
        /\ path \in PathArgs
        /\ defaults \in DefaultArgs
  /\ ret = [done |-> FALSE, v |-> UndefinedNode]
NextGet == CallGet
SpecGet == InitGet /\ [][NextGet]_vars


(***************************************************************************)
(* The claims                                                              *)
(***************************************************************************)
IsCatalogId(v) == v.k = "num" /\ v.f = 0 /\ v.n \in StreamIds
IsNumber(v) == v.k \in {"num", "nan"}
Threw(err) == result.k = "throw" /\ result.err = err

\* floor(min(100, max(0, v))) as Math.floor, Math.min and Math.max compute it
FloorMinMax(v) ==
  IF v.k = "nan" THEN NaN
  ELSE IF v.n >= 100 THEN IntNum(100)
  ELSE IF v.n < 0 THEN IntNum(0)
  ELSE IntNum(v.n)

\* C1: a successful setVolume(s, v) on a catalog stream leaves the persisted
\* volume of s and the volume forwarded to the native backend under s.id equal to
\* floor(min(100, max(0, v))); 150 persists and forwards 100, -10 persists and
\* forwards 0.
C1_SetVolumeClampsAndFloors ==
  (op = "setVolume" /\ Len(args) = 2 /\ result.k = "return" /\ IsCatalogId(args[1])) =>
    LET key == KeyOf(NameOfId(args[1].n))
        id == args[1].n
    IN /\ NameOfId(id) # "system"
       /\ IsNumber(args[2])
       /\ store[key] = NumberToString(FloorMinMax(args[2]))
       /\ streamVolume[id] = FloorMinMax(args[2])
       /\ args[2] = IntNum(150) => store[key] = <<"1", "0", "0">> /\ streamVolume[id] = IntNum(100)
       /\ args[2] = IntNum(-10) => store[key] = <<"0">> /\ streamVolume[id] = IntNum(0)
       /\ args[2] = Num(50, 5) => store[key] = <<"5", "0">> /\ streamVolume[id] = IntNum(50)

C1_Witness ==
  /\ op = "setVolume" /\ result.k = "return"
  /\ args = <<IntNum(native_STREAM("alarm")), IntNum(-10)>>
  /\ store[KeyOf("alarm")] = <<"0">>
  /\ streamVolume[native_STREAM("alarm")] = IntNum(0)

\* C2 (as claimed): once the module is loaded, every catalog stream has a
\* persisted volume that parses to an integer in 0..100, whatever the property
\* store held and whatever operations ran.
C2_PersistedInRange ==
  loaded =>
    \A i \in 1..NStreams :
      LET v == parseInt(store[KeyOf(StreamNames[i])])
      IN v.k = "num" /\ v.n >= 0 /\ v.n <= 100

NativeCalls == {"native.setStreamVolume", "native.getStreamPlayingStatus",
                 "native.setMute", "native.isMuted", "native.setCurveForVolume"}

\* C3 (as claimed): setVolume(id, v), getVolume(id) and getPlayingStatus(id) with
\* an id outside the catalog throw 'invalid stream type', write nothing to the
\* property store and call nothing of the native backend.
C3_UnknownStreamRejected ==
  ( /\ \/ op = "setVolume" /\ Len(args) = 2
       \/ op \in {"getVolume", "getPlayingStatus"} /\ Len(args) = 1
    /\ ~IsCatalogId(args[1]) ) =>
    /\ Threw(InvalidStreamType)
    /\ \A i \in 1..Len(calls) : calls[i].fn \notin NativeCalls \cup {"property.set"}

SystemKey == KeyOf("system")
OnSystem(argv) == Len(argv) = 2 /\ argv[1] = IntNum(native_STREAM("system"))

\* C4 (as claimed): setVolume on the system stream throws the readonly error for
\* every volume value.
C4_SystemAlwaysReadonlyError ==
  (op = "setVolume" /\ OnSystem(args)) =>
    Threw("Error: stream type \"system\" is readonly")

\* C4 (amended): setVolume on the system stream throws the readonly error for
\* every volume of type number and 'vol must be a number' for any other volume,
\* and no setVolume call, with or without a stream, changes the persisted or the
\* native volume of the system stream.
C4_SystemReadonly ==
  [][ op' = "setVolume" =>
        /\ OnSystem(args') =>
             /\ result'.k = "throw"
             /\ result'.err = IF IsNumber(args'[2])
                                THEN "Error: stream type \"system\" is readonly"
                                ELSE "TypeError: vol must be a number"
        /\ store'[SystemKey] = store[SystemKey]
        /\ streamVolume'[native_STREAM("system")] = streamVolume[native_STREAM("system")]
    ]_vars

C4_Witness ==
  /\ op = "setVolume"
  /\ args = <<IntNum(native_STREAM("system")), IntNum(150)>>
  /\ Threw("Error: stream type \"system\" is readonly")
  /\ nops = 3

StoreAndForward(name, v) ==
  << Call("property.set", Str("audio.volume." \o name), v),
     Call("native.setStreamVolume", IntNum(native_STREAM(name)), v) >>

DefaultWritten(text) ==
  CASE text = <<"3", "0">> -> <<"3", "0">>
    [] text = <<"1", "5", "0">> -> <<"1", "5", "0">>
    [] text = <<"-", "5">> -> <<"-", "5">>
    [] text = <<" ", "4", "2", "%">> -> <<"4", "2">>
    [] OTHER -> <<"6", "0">>
\* the stored texts that are absent or not numeric
NonNumeric(text) == text \in {NoValue, <<"o", "f", "f">>}

\* C6: init writes the configured default (the integer parsed from
\* audio.volume.default, 60 if there is none) for exactly the streams whose
\* persisted value is absent or not numeric, leaves the others and
\* audio.volume.default as they were, and a second init changes no persisted volume.
C6_InitIdempotent ==
  [][ op' = "init" =>
        /\ \A i \in 1..NStreams :
             LET key == KeyOf(StreamNames[i])
             IN store'[key] = IF NonNumeric(store[key])
                                THEN DefaultWritten(store[DefaultKey])
                                ELSE store[key]
        /\ store'[DefaultKey] = store[DefaultKey]
        /\ op = "init" => store' = store
    ]_vars

C6_Witness ==
  /\ op = "init" /\ nops = 2
  /\ store[DefaultKey] = <<" ", "4", "2", "%">>
  /\ store[KeyOf("audio")] = <<"4", "2">>
  /\ store[KeyOf("alarm")] = <<"7", "x">>
  /\ KeyOf("audio") \notin written

\* C7 (as claimed): getVolume(s) returns the persisted integer when the stored
\* value parses and false otherwise; getVolume(s) right after a successful
\* setVolume(s, v) returns floor(min(100, max(0, v))), never false; getVolume()
\* answers as getVolume(STREAM_TTS) does.
C7_GetAfterSet ==
  [][ (op' = "getVolume" /\ (Len(args') = 0 \/ IsCatalogId(args'[1]))) =>
        LET name == IF Len(args') = 0 THEN "tts" ELSE NameOfId(args'[1].n)
            stored == parseInt(store[KeyOf(name)])
        IN /\ result'.k = "return"
           /\ result'.v = IF stored.k = "nan" THEN Bool(FALSE) ELSE stored
           /\ ( /\ op = "setVolume" /\ Len(args) = 2 /\ result.k = "return"
                /\ args' = <<args[1]>> ) =>
                result'.v = FloorMinMax(args[2])
    ]_vars

NoNode == Node("none", "", 0, NoKids)

\* C9: get substitutes the default exactly when resolution yields no value (the
\* container is null or undefined, a member is missing, or a scalar is reached
\* with segments left); a null reached inside the container is returned as null,
\* whatever segments remain; and every case of the suite gets its expected value.
C9_GetDefaultsAndNull ==
  ret.done =>
    LET segs == Split(PathChars(path), 1, <<>>)
        n == Len(segs)
        visited[j \in 0..n] ==
          IF j = 0 THEN container
          ELSE IF /\ visited[j - 1].kind \in {"mapping", "sequence"}
                  /\ segs[j] \in DOMAIN visited[j - 1].kids
                 THEN visited[j - 1].kids[segs[j]]
                 ELSE NoNode
        noContainer == container.kind \in {"null", "undefined"}
        nullInside == \E j \in 1..n : visited[j].kind = "null"
        noValue == noContainer \/ (~nullInside /\ visited[n].kind \in {"none", "undefined"})
    IN /\ noValue <=> ret.v = defaults
       /\ (nullInside /\ ~noContainer) => ret.v = NullNode
       /\ (~noValue /\ ~nullInside) => ret.v = visited[n]
       /\ \A c \in 1..Len(GetCases) :
            (container = GetCases[c].object /\ path = GetCases[c].path
               /\ defaults = GetCases[c].dflt) => ret.v = GetCases[c].expected

C9_Witness ==
  /\ ret.done
  /\ container = Mapping("a" :> NullNode @@ "b" :> StringNode("bar"))
  /\ path = StringPath(<<"a", ".", "b", ".">>)
  /\ defaults = StringNode("X")
  /\ ret.v = NullNode

\* C10: each catalog stream written since the process started has its native
\* volume equal to its persisted volume, and every property.set of an operation
\* is followed at once by the native.setStreamVolume of the same stream and value.
C10_PersistThenForward ==
  /\ \A i \in 1..NStreams :
       KeyOf(StreamNames[i]) \in written =>
         store[KeyOf(StreamNames[i])] = NumberToString(streamVolume[idBase + i - 1])
  /\ \A k \in 1..Len(calls) :
       /\ calls[k].fn = "property.set" =>
            /\ k < Len(calls)
            /\ calls[k + 1].fn = "native.setStreamVolume"
            /\ calls[k + 1].b = calls[k].b
            /\ calls[k].b.k \in {"num", "nan"} /\ calls[k].b.f = 0
            /\ \/ calls[k].a = Undefined /\ calls[k + 1].a = Undefined
               \/ \E i \in 1..NStreams :
                    /\ calls[k].a = Str(KeyOf(StreamNames[i]))
                    /\ calls[k + 1].a = IntNum(idBase + i - 1)
       /\ calls[k].fn = "native.setStreamVolume" =>
            k > 1 /\ calls[k - 1].fn = "property.set"

C10_Witness ==
  /\ op = "setVolume" /\ args = <<IntNum(native_STREAM("ring")), Num(50, 5)>>
  /\ KeyOf("ring") \in written
  /\ KeyOf("tts") \notin written
  /\ store[KeyOf("ring")] = <<"5", "0">>
  /\ streamVolume[native_STREAM("ring")] = IntNum(50)

====
